---- MODULE Spec2Model ----
(***************************************************************************)
(* Model of the CMSSW plugin PlainEventContent (plugins/PlainEventContent. *)
(* cc, .h): its member buffers, beginJob() and the per-event handler       *)
(* analyze().                                                              *)
(*                                                                         *)
(* Numbers.  Momenta, isolation sums and similar doubles are integers in   *)
(* arbitrary units.  The relative isolation is the exact fraction          *)
(* <<numerator, denominator>>, both doubled so that the delta-beta factor  *)
(* 0.5 stays integral.  Azimuths are integers in units of pi / HalfTurn.   *)
(*                                                                         *)
(* The classes of namespace pec (Candidate, CandidateWithID, Lepton,       *)
(* Electron, Muon, Jet, EventID, GeneratorInfo, PileUpInfo) live in        *)
(* UserCode/SingleTop/interface, outside the two plugin files; their       *)
(* Reset, setters and bit field are modelled from the specification.       *)
(*                                                                         *)
(* Inputs.  Under Spec the upstream collections analyze() dereferences     *)
(* without a test (the MET collection, the generator-level MET of a MET,   *)
(* the pile-up summary) are non-empty in every event, and every configured *)
(* selector list fits the bit field.  SpecWide runs the same program with  *)
(* selector lists at and beyond the width of the bit field, SpecAbsent     *)
(* with events that lack those collections, SpecPull with jets whose axis  *)
(* and constituent take every azimuth.                                     *)
(***************************************************************************)
EXTENDS Integers, Sequences, FiniteSets

VARIABLES
    cfg,             \* the configuration the instance was constructed with
    phase,           \* "constructed" | "running" (after beginJob)
    branches,        \* names of the branches registered in outTree
    eventId,         \* member buffer pec::EventID
    storeElectrons,  \* member buffer std::vector<pec::Electron>
    storeMuons,      \* member buffer std::vector<pec::Muon>
    storeJets,       \* member buffer std::vector<pec::Jet>
    storeMETs,       \* member buffer std::vector<pec::Candidate>
    generatorInfo,   \* member buffer pec::GeneratorInfo
    puInfo,          \* member buffer pec::PileUpInfo
    nFilled,         \* number of entries of outTree
    outEntry,        \* the entry the last outTree->Fill() wrote
    status,          \* outcome of the last analyze(): "none" | "emitted" | "raised"
    lastEvent,       \* the event given to the last analyze()
    genInfoAtEntry,  \* generatorInfo as the last analyze() found it
    nEvents,         \* number of analyze() calls so far
    nWithVertex      \* number of those whose event had at least one vertex

vars == <<cfg, phase, branches, eventId, storeElectrons, storeMuons, storeJets,
          storeMETs, generatorInfo, puInfo, nFilled, outEntry, status, lastEvent,
          genInfoAtEntry, nEvents, nWithVertex>>

buffers == <<eventId, storeElectrons, storeMuons, storeJets, storeMETs,
             generatorInfo, puInfo>>

(***************************************************************************)
(* Bounds of the model                                                     *)
(***************************************************************************)
MaxEvents == 2   \* analyze() calls in one behaviour
MaxObj == 2      \* objects in one input collection
MaxSel == 2      \* selection strings configured for one object type
HalfTurn == 4    \* pi, in the model's unit of azimuth

(***************************************************************************)
(* Program constants                                                       *)
(***************************************************************************)
DefaultJetMinPt == 20
DefaultJetMinRawPt == 10
GenJetMinPt == 8
GenJetMaxDeltaR100 == 25   \* 0.25, in hundredths
FieldWidth == 8            \* bits of the packed field of pec::CandidateWithID

Max(a, b) == IF a >= b THEN a ELSE b

RECURSIVE Pow2(_)
Pow2(n) == IF n = 0 THEN 1 ELSE 2 * Pow2(n - 1)

SeqsUpTo(S, n) == UNION {[1..k -> S] : k \in 0..n}

\* The collections given to a loop: every object of U alone, and every sequence
\* of at most n objects of D.
Collections(U, D, n) == {<<u>> : u \in U} \cup SeqsUpTo(D, n)

(***************************************************************************)
(* pec:: classes                                                           *)
(***************************************************************************)
TestBit(bits, index) == (bits \div Pow2(index)) % 2 = 1

SetBit(bits, index, value) ==
    IF value
    THEN (IF TestBit(bits, index) THEN bits ELSE bits + Pow2(index))
    ELSE (IF TestBit(bits, index) THEN bits - Pow2(index) ELSE bits)

\* SetBit refuses an index beyond the field: it throws.
IllegalBitIndex(index) == index >= FieldWidth

EventIDReset == [run |-> 0, event |-> 0, lumi |-> 0]

CandidateReset == [pt |-> 0, eta |-> 0, phi |-> 0, m |-> 0]

ElectronReset ==
    [pt |-> 0, eta |-> 0, phi |-> 0, m |-> 0, bits |-> 0, charge |-> 0,
     relIso |-> <<0, 1>>, dB |-> 0, cutBasedId |-> 0]

MuonReset ==
    [pt |-> 0, eta |-> 0, phi |-> 0, m |-> 0, bits |-> 0, charge |-> 0,
     relIso |-> <<0, 1>>, dB |-> 0]

JetReset ==
    [pt |-> 0, eta |-> 0, phi |-> 0, m |-> 0, bits |-> 0, bTagCSV |-> 0,
     secVertexMass |-> 0, area |-> 0, charge |-> 0, pullAngle |-> <<>>,
     flavour |-> 0]

GeneratorInfoReset ==
    [processId |-> 0, weights |-> <<>>, pdfX |-> <<0, 0>>, pdfId |-> <<0, 0>>,
     pdfQScale |-> 0]

PileUpInfoReset == [numPV |-> 0, rho |-> 0, trueNumPU |-> 0, inTimePU |-> 0]

(***************************************************************************)
(* Configuration (constructor)                                             *)
(***************************************************************************)
\* The lengths of the lists eleSelection, muSelection, jetSelection and
\* eleIDMaps: each list takes every length of 0..MaxSel, and the lists of one
\* configuration differ in length.
SelectorCounts ==
    {[ele |-> a, mu |-> (a + 1) % (MaxSel + 1), jet |-> (a + 2) % (MaxSel + 1),
      ids |-> (a + 1) % 2] : a \in 0..MaxSel}

Configs ==
    {[runOnData |-> d, saveCorrectedJetMomenta |-> s,
      jetMinPt |-> DefaultJetMinPt, jetMinRawPt |-> DefaultJetMinRawPt,
      nEleSel |-> c.ele, nMuSel |-> c.mu, nJetSel |-> c.jet, nEleIDMaps |-> c.ids] :
        d \in BOOLEAN, s \in BOOLEAN, c \in SelectorCounts}

\* Selector lists at the width of the bit field: one list of FieldWidth
\* selections, whose last index 1 + (FieldWidth - 1) is beyond the field, or
\* three lists of FieldWidth - 1 selections, which fit.
WideSelectorCounts ==
    {[ele |-> FieldWidth, mu |-> 0, jet |-> 0, ids |-> 0],
     [ele |-> 0, mu |-> FieldWidth, jet |-> 0, ids |-> 0],
     [ele |-> 0, mu |-> 0, jet |-> FieldWidth, ids |-> 1],
     [ele |-> FieldWidth - 1, mu |-> FieldWidth - 1, jet |-> FieldWidth - 1,
      ids |-> 0]}

\* The constructor takes the lists as they are configured.
WideConfigs ==
    {[runOnData |-> d, saveCorrectedJetMomenta |-> TRUE,
      jetMinPt |-> DefaultJetMinPt, jetMinRawPt |-> DefaultJetMinRawPt,
      nEleSel |-> c.ele, nMuSel |-> c.mu, nJetSel |-> c.jet, nEleIDMaps |-> c.ids] :
        d \in BOOLEAN, c \in WideSelectorCounts}

(***************************************************************************)
(* Input events                                                            *)
(***************************************************************************)
AllFalse(n) == [i \in 1..n |-> FALSE]

\* What n selectors return for one object: all fail, all pass, or one passes.
Decisions(n) ==
    {AllFalse(n), [i \in 1..n |-> TRUE]} \cup {[i \in 1..n |-> i = k] : k \in 1..n}

\* pat::Electron, with the decisions the configured ID maps and selectors
\* return for it.
BaseElectron(c) ==
    [pt |-> 30, eta |-> 1, phi |-> 2, charge |-> -1, dB |-> 3,
     chargedHadronIso |-> 2, neutralHadronIso |-> 1, photonIso |-> 1,
     puChargedHadronIso |-> 1, passConversionVeto |-> TRUE,
     idDecisions |-> AllFalse(c.nEleIDMaps), sel |-> AllFalse(c.nEleSel)]

\* The four isolation sums: pile-up term below, equal to and far above the
\* neutral sum, and no activity at all.
IsoInputs == {<<2, 1, 1, 1>>, <<3, 1, 1, 4>>, <<1, 0, 1, 40>>, <<0, 0, 0, 0>>}

WithIso(o, v) ==
    [o EXCEPT !.chargedHadronIso = v[1], !.neutralHadronIso = v[2],
              !.photonIso = v[3], !.puChargedHadronIso = v[4]]

\* The electrons of the collections with several electrons.
CompanionElectrons(c) ==
    {[BaseElectron(c) EXCEPT !.sel = [i \in 1..c.nEleSel |-> TRUE],
                             !.idDecisions = [i \in 1..c.nEleIDMaps |-> TRUE]],
     [WithIso(BaseElectron(c), <<1, 0, 1, 40>>) EXCEPT
         !.passConversionVeto = FALSE, !.sel = [i \in 1..c.nEleSel |-> i = 1],
         !.pt = 12]}

Electrons(c) ==
    LET b == BaseElectron(c)
    IN {WithIso(b, v) : v \in IsoInputs}
       \cup {[b EXCEPT !.passConversionVeto = FALSE]}
       \cup {[b EXCEPT !.sel = s] : s \in Decisions(c.nEleSel)}
       \cup {[b EXCEPT !.idDecisions = s] : s \in Decisions(c.nEleIDMaps)}
       \cup {[b EXCEPT !.pt = 7, !.eta = -2, !.phi = -3, !.charge = 1, !.dB = 1]}

\* pat::Muon; tight is isTightMuon() for the first primary vertex.
BaseMuon(c) ==
    [pt |-> 25, eta |-> -1, phi |-> 1, charge |-> 1, dB |-> 2,
     chargedHadronIso |-> 2, neutralHadronIso |-> 1, photonIso |-> 1,
     puChargedHadronIso |-> 1, tight |-> TRUE, sel |-> AllFalse(c.nMuSel)]

\* The muons of the collections with several muons.
CompanionMuons(c) ==
    {[BaseMuon(c) EXCEPT !.sel = [i \in 1..c.nMuSel |-> TRUE]],
     [WithIso(BaseMuon(c), <<1, 0, 1, 40>>) EXCEPT
         !.tight = FALSE, !.sel = [i \in 1..c.nMuSel |-> i = 1], !.pt = 14]}

Muons(c) ==
    LET b == BaseMuon(c)
    IN {WithIso(b, v) : v \in IsoInputs}
       \cup {[b EXCEPT !.tight = FALSE]}
       \cup {[b EXCEPT !.sel = s] : s \in Decisions(c.nMuSel)}
       \cup {[b EXCEPT !.pt = 9, !.eta = 2, !.phi = -1, !.charge = -1, !.dB = 4]}

\* A jet constituent.
Daughters == {[pt |-> 3, rapidity |-> 2, phi |-> HalfTurn],
              [pt |-> 1, rapidity |-> 0, phi |-> -HalfTurn + 1]}

NoGenJet == [present |-> FALSE, pt |-> 0, deltaR100 |-> 0]

\* pat::Jet: p4() is the corrected momentum, raw is correctedP4("Uncorrected");
\* genJet.deltaR100 is DeltaR(p4(), genJet()->p4()) in hundredths.
BaseJet(c) ==
    [pt |-> 40, eta |-> 1, phi |-> 2, mass |-> 6,
     raw |-> [pt |-> 35, eta |-> 2, phi |-> 3, mass |-> 5, rapidity |-> 1],
     jetArea |-> 5, jetCharge |-> 1, bDiscriminator |-> 7, vtxMass |-> 2,
     daughters |-> <<>>, hadronFlavour |-> 5,
     genJet |-> [present |-> TRUE, pt |-> 30, deltaR100 |-> 10],
     sel |-> AllFalse(c.nJetSel)]

\* Corrected and raw transverse momenta around the two thresholds.
JetPtInputs(c) ==
    {<<c.jetMinPt + 1, 0>>, <<0, c.jetMinRawPt + 1>>, <<c.jetMinPt, c.jetMinRawPt>>,
     <<c.jetMinPt - 5, c.jetMinRawPt - 2>>, <<c.jetMinPt + 5, c.jetMinRawPt - 5>>,
     <<c.jetMinRawPt + 1, c.jetMinRawPt>>}

GenJetInputs ==
    {NoGenJet,
     [present |-> TRUE, pt |-> GenJetMinPt, deltaR100 |-> 10],
     [present |-> TRUE, pt |-> GenJetMinPt + 1, deltaR100 |-> GenJetMaxDeltaR100],
     [present |-> TRUE, pt |-> GenJetMinPt + 1, deltaR100 |-> GenJetMaxDeltaR100 - 1]}

\* The jets of the collections with several jets: one that passes on its raw pt
\* alone and one that is at both thresholds.
CompanionJets(c) ==
    {[BaseJet(c) EXCEPT !.pt = c.jetMinPt - 1, !.raw.pt = c.jetMinRawPt + 1,
                        !.sel = [i \in 1..c.nJetSel |-> i = 1], !.jetArea = 4,
                        !.hadronFlavour = 4],
     [BaseJet(c) EXCEPT !.pt = c.jetMinPt, !.raw.pt = c.jetMinRawPt, !.jetArea = 3]}

Jets(c) ==
    LET b == BaseJet(c)
    IN {[b EXCEPT !.pt = v[1], !.raw.pt = v[2], !.jetArea = 2 * v[1] + v[2]] :
            v \in JetPtInputs(c)}
       \cup {[b EXCEPT !.genJet = g] : g \in GenJetInputs}
       \cup {[b EXCEPT !.hadronFlavour = 0]}
       \cup {[b EXCEPT !.sel = s] : s \in Decisions(c.nJetSel)}
       \cup {[b EXCEPT !.daughters = d] : d \in SeqsUpTo(Daughters, 1)}

\* pat::MET::METUncertainty values analyze() iterates over, in its order.
METVariations ==
    <<"JetEnUp", "JetEnDown", "JetResUp", "JetResDown", "MuonEnUp", "MuonEnDown",
      "ElectronEnUp", "ElectronEnDown", "TauEnUp", "TauEnDown",
      "UnclusteredEnUp", "UnclusteredEnDown">>

METShifts == {"NoShift"} \cup {METVariations[i] : i \in DOMAIN METVariations}

METLevels == {"Type1", "Raw"}

\* The position of a shift in METShifts' order, NoShift first.
ShiftOffsets ==
    [NoShift |-> 0, JetEnUp |-> 1, JetEnDown |-> 2, JetResUp |-> 3, JetResDown |-> 4,
     MuonEnUp |-> 5, MuonEnDown |-> 6, ElectronEnUp |-> 7, ElectronEnDown |-> 8,
     TauEnUp |-> 9, TauEnDown |-> 10, UnclusteredEnUp |-> 11,
     UnclusteredEnDown |-> 12]

ShiftOffset(shift) == ShiftOffsets[shift]

\* pat::MET: `base` determines the momenta of all shifts and levels, see
\* ShiftedPt and ShiftedPhi; genMET is the embedded generator-level MET.
MakeMET(b) ==
    [base |-> b,
     genMET |-> [present |-> TRUE, pt |-> b + 50, phi |-> (b % HalfTurn) + 1]]

\* genMET() of a MET without an embedded generator-level MET: a null pointer.
NoGenMET == [present |-> FALSE, pt |-> 0, phi |-> 0]

\* pat::MET::shiftedPt(shift, level): every (shift, level) has its own value.
ShiftedPt(met, shift, level) ==
    met.base + 2 * ShiftOffset(shift) + (IF level = "Raw" THEN 1 ELSE 0)

\* pat::MET::shiftedPhi(shift, level), within [-HalfTurn, HalfTurn].
ShiftedPhi(met, shift, level) ==
    IF level = "Raw" THEN HalfTurn - (met.base % HalfTurn)
    ELSE ((met.base + ShiftOffset(shift)) % (2 * HalfTurn)) - HalfTurn

METs == {MakeMET(10), MakeMET(41)}

\* GenEventInfoProduct; pdf.present is the pointer generator->pdf() being set.
NoPDF == [present |-> FALSE, x |-> <<0, 0>>, id |-> <<0, 0>>, scalePDF |-> 0]

Generators ==
    {[signalProcessID |-> p, weights |-> w, pdf |-> d] :
        p \in {7}, w \in {<<3>>, <<1, 2>>},
        d \in {NoPDF, [present |-> TRUE, x |-> <<1, 2>>, id |-> <<21, -3>>,
                       scalePDF |-> 90]}}
    \cup {[signalProcessID |-> 11, weights |-> <<>>, pdf |-> NoPDF]}

\* PileupSummaryInfo entries, one per bunch crossing.
PUEntry(bx, n) == [bunchCrossing |-> bx, numInteractions |-> n, trueNumInteractions |-> 17]

PUSummaries ==
    {<<PUEntry(0, 12)>>, <<PUEntry(-1, 9), PUEntry(0, 12), PUEntry(1, 14)>>,
     <<PUEntry(-1, 9), PUEntry(1, 14)>>, <<PUEntry(0, 12), PUEntry(0, 5)>>}

\* What a read through an invalid reference or a null pointer may give when the
\* process survives it: the object metHandle->front() of an empty collection,
\* the generator-level MET behind a null genMET(), the entry puSummary->front()
\* of an empty summary.
StrayMETs == {MakeMET(0), MakeMET(23)}

StrayGenMETs == {[present |-> TRUE, pt |-> 0, phi |-> 0],
                 [present |-> TRUE, pt |-> 77, phi |-> -1]}

StrayPUEntries ==
    {[bunchCrossing |-> 0, numInteractions |-> 0, trueNumInteractions |-> 0],
     [bunchCrossing |-> 3, numInteractions |-> 21, trueNumInteractions |-> 33]}

EventNumbers == {[run |-> 1, event |-> 5, lumi |-> 2], [run |-> 3, event |-> 4, lumi |-> 6]}

BaseEvent(c) ==
    [id |-> [run |-> 1, event |-> 5, lumi |-> 2], nVertices |-> 1,
     electrons |-> <<BaseElectron(c)>>, muons |-> <<BaseMuon(c)>>,
     jets |-> <<BaseJet(c)>>, mets |-> <<MakeMET(10)>>,
     generator |-> [signalProcessID |-> 7, weights |-> <<3>>,
                    pdf |-> [present |-> TRUE, x |-> <<1, 2>>, id |-> <<21, -3>>,
                             scalePDF |-> 90]],
     rho |-> 4, puSummary |-> <<PUEntry(0, 12)>>]

\* The events given to analyze(): the base event with one of its parts ranging
\* over the inputs of that part.
Events(c) ==
    LET b == BaseEvent(c)
    IN {[b EXCEPT !.id = v, !.nVertices = n] : v \in EventNumbers, n \in 0..2}
       \cup {[b EXCEPT !.electrons = v] :
                v \in Collections(Electrons(c), CompanionElectrons(c), MaxObj)}
       \cup {[b EXCEPT !.muons = v] :
                v \in Collections(Muons(c), CompanionMuons(c), MaxObj)}
       \cup {[b EXCEPT !.jets = v] :
                v \in Collections(Jets(c), CompanionJets(c), MaxObj)}
       \cup {[b EXCEPT !.mets = <<v>>] : v \in METs}
       \cup {[b EXCEPT !.generator = v] : v \in Generators}
       \cup {[b EXCEPT !.rho = r, !.puSummary = v] : r \in {4, 9}, v \in PUSummaries}
       \cup {[b EXCEPT !.nVertices = 0, !.jets = <<>>, !.rho = 9]}

\* The azimuths of [-pi, pi].
Azimuths == (-HalfTurn)..HalfTurn

\* Events with one jet of one constituent, the jet axis and the constituent at
\* every pair of azimuths.
PullEvents(c) ==
    {[BaseEvent(c) EXCEPT
         !.jets = <<[BaseJet(c) EXCEPT
                        !.raw.phi = a,
                        !.daughters = <<[pt |-> 3, rapidity |-> 2, phi |-> p]>>]>>] :
        a \in Azimuths, p \in Azimuths}

\* Events that lack an upstream input: the PDF block, the generator-level jet,
\* the pile-up entry of bunch crossing 0, the MET collection, the generator-level
\* MET, the pile-up summary; and the base event, which lacks none.
AbsentEvents(c) ==
    LET b == BaseEvent(c)
    IN {[b EXCEPT !.id = v, !.nVertices = n] : v \in EventNumbers, n \in 0..1}
       \cup {[b EXCEPT !.generator = v] : v \in Generators}
       \cup {[b EXCEPT !.jets = <<[BaseJet(c) EXCEPT !.genJet = g]>>] :
                g \in GenJetInputs}
       \cup {[b EXCEPT !.rho = 9, !.puSummary = v] : v \in PUSummaries \cup {<<>>}}
       \cup {[b EXCEPT !.mets = v] :
                v \in {<<>>, <<[MakeMET(41) EXCEPT !.genMET = NoGenMET]>>,
                       <<MakeMET(41)>>}}
       \cup {[b EXCEPT !.nVertices = 0, !.mets = <<>>, !.puSummary = <<>>]}

(***************************************************************************)
(* analyze(): electrons and muons                                          *)
(***************************************************************************)
\* Faulty variant of RelIso: the pile-up-subtracted term is not clamped at zero.
RelIsoUnclamped(o) ==
    <<2 * o.chargedHadronIso
        + (2 * o.neutralHadronIso + 2 * o.photonIso - o.puChargedHadronIso),
      2 * o.pt>>

\* (chargedHadronIso + max(neutralHadronIso + photonIso - 0.5 * puChargedHadronIso,
\* 0.)) / pt, as the fraction <<2 * numerator, 2 * pt>>.
RelIso(o) ==
    <<2 * o.chargedHadronIso
        + Max(2 * o.neutralHadronIso + 2 * o.photonIso - o.puChargedHadronIso, 0),
      2 * o.pt>>

\* Faulty variant of EleSelectorBit: the selector bits start at bit 0.
EleSelectorBitFromZero(i) == i

\* Index of the bit that receives the decision of selector i (counted from 0).
EleSelectorBit(i) == 1 + i

MuSelectorBit(i) == 1 + i

\* for (i = from; i < n; ++i) SetBit(index[i + 1], decisions[i + 1])
RECURSIVE SetBitsLoop(_, _, _, _, _)
SetBitsLoop(bits, index, decisions, i, n) ==
    IF i >= n THEN bits
    ELSE SetBitsLoop(SetBit(bits, index[i + 1], decisions[i + 1]), index, decisions,
                     i + 1, n)

\* One pass of the loop over srcElectrons: storeElectron is reset and refilled.
FillElectron(c, storeElectron, el) ==
    LET s0 == ElectronReset
        s1 == [s0 EXCEPT !.pt = el.pt, !.eta = el.eta, !.phi = el.phi,
                         !.charge = el.charge, !.dB = el.dB, !.relIso = RelIso(el)]
        s2 == [s1 EXCEPT !.cutBasedId =
                  SetBitsLoop(@, [i \in 1..c.nEleIDMaps |-> i - 1], el.idDecisions,
                              0, c.nEleIDMaps)]
        s3 == [s2 EXCEPT !.bits = SetBit(@, 0, el.passConversionVeto)]
    IN [s3 EXCEPT !.bits =
           SetBitsLoop(@, [i \in 1..c.nEleSel |-> EleSelectorBit(i - 1)], el.sel,
                       0, c.nEleSel)]

RECURSIVE ElectronLoop(_, _, _, _, _)
ElectronLoop(c, src, i, storeElectron, out) ==
    IF i > Len(src) THEN out
    ELSE LET e == FillElectron(c, storeElectron, src[i])
         IN ElectronLoop(c, src, i + 1, e, Append(out, e))

\* Faulty variant of ElectronsStep: an electron is stored only if it passes the first
\* selector.
ElectronsStepFiltered(c, prev, src) ==
    LET Pass(el) == c.nEleSel = 0 \/ el.sel[1]
    IN ElectronLoop(c, SelectSeq(src, Pass), 1, ElectronReset, <<>>)

\* storeElectrons.clear() and the loop; the scratch object starts default-constructed.
ElectronsStep(c, prev, src) == ElectronLoop(c, src, 1, ElectronReset, <<>>)

FillMuon(c, storeMuon, mu) ==
    LET s0 == MuonReset
        s1 == [s0 EXCEPT !.pt = mu.pt, !.eta = mu.eta, !.phi = mu.phi,
                         !.charge = mu.charge, !.dB = mu.dB, !.relIso = RelIso(mu)]
        s2 == [s1 EXCEPT !.bits = SetBit(@, 0, mu.tight)]
    IN [s2 EXCEPT !.bits =
           SetBitsLoop(@, [i \in 1..c.nMuSel |-> MuSelectorBit(i - 1)], mu.sel,
                       0, c.nMuSel)]

RECURSIVE MuonLoop(_, _, _, _, _)
MuonLoop(c, src, i, storeMuon, out) ==
    IF i > Len(src) THEN out
    ELSE LET m == FillMuon(c, storeMuon, src[i])
         IN MuonLoop(c, src, i + 1, m, Append(out, m))

\* storeMuons.clear() and the loop.
MuonsStep(c, prev, src) == MuonLoop(c, src, 1, MuonReset, <<>>)

(***************************************************************************)
(* analyze(): jets                                                         *)
(***************************************************************************)
\* Faulty variant of JetAdmitted: both thresholds must be passed.
JetAdmittedBoth(c, j) == j.pt > c.jetMinPt /\ j.raw.pt > c.jetMinRawPt

JetAdmitted(c, j) == j.pt > c.jetMinPt \/ j.raw.pt > c.jetMinRawPt

\* Faulty variant of WrapDPhi: the difference is used as it is.
WrapDPhiNone(dPhi) == dPhi

\* The azimuth difference after the single additive correction.
WrapDPhi(dPhi) ==
    IF dPhi < -HalfTurn THEN 2 * HalfTurn + dPhi
    ELSE IF dPhi > HalfTurn THEN -2 * HalfTurn + dPhi
    ELSE dPhi

\* The loop over the constituents: per constituent the triple <<pt, rapidity
\* difference, azimuth difference>> that its terms of pullY and pullPhi are
\* computed from.  The pull angle atan2(pullPhi, pullY) is a function of this
\* sequence, which stands for it.
PullAngle(j) ==
    [k \in 1..Len(j.daughters) |->
        <<j.daughters[k].pt, j.daughters[k].rapidity - j.raw.rapidity,
          WrapDPhi(j.daughters[k].phi - j.raw.phi)>>]

GenMatched(j) ==
    j.genJet.present /\ j.genJet.pt > GenJetMinPt
        /\ j.genJet.deltaR100 < GenJetMaxDeltaR100

\* Faulty variant of JetSelectorBit: the selector bits start at bit 0.
JetSelectorBitFromZero(i) == i

JetSelectorBit(i) == i + 1

\* Faulty variant of JetGenPart: the generator-level part runs on real data too.
JetGenPartUnguarded(c, s, j) ==
    [s EXCEPT !.flavour = j.hadronFlavour, !.bits = SetBit(@, 0, GenMatched(j))]

\* The generator-level part, inside if (not runOnData).
JetGenPart(c, s, j) ==
    IF ~c.runOnData
    THEN [s EXCEPT !.flavour = j.hadronFlavour, !.bits = SetBit(@, 0, GenMatched(j))]
    ELSE s

\* Faulty variant of FillJet: the stored pt is the one that passed its threshold,
\* the other components follow saveCorrectedJetMomenta.
FillJetMixed(c, storeJet, j) ==
    LET s0 == IF c.saveCorrectedJetMomenta
              THEN [storeJet EXCEPT !.pt = j.pt, !.eta = j.eta, !.phi = j.phi,
                                    !.m = j.mass]
              ELSE [storeJet EXCEPT !.pt = j.raw.pt, !.eta = j.raw.eta,
                                    !.phi = j.raw.phi, !.m = j.raw.mass]
        s1 == [s0 EXCEPT !.pt = IF j.pt > c.jetMinPt THEN j.pt ELSE j.raw.pt]
        s2 == [s1 EXCEPT !.area = j.jetArea, !.charge = j.jetCharge,
                         !.bTagCSV = j.bDiscriminator, !.secVertexMass = j.vtxMass,
                         !.pullAngle = PullAngle(j)]
        s3 == JetGenPart(c, s2, j)
    IN [s3 EXCEPT !.bits =
           SetBitsLoop(@, [i \in 1..c.nJetSel |-> JetSelectorBit(i - 1)], j.sel,
                       0, c.nJetSel)]

\* The body of if (j.pt() > jetMinPt or rawP4.pt() > jetMinRawPt), on the scratch
\* object already reset.
FillJet(c, storeJet, j) ==
    LET s1 == IF c.saveCorrectedJetMomenta
              THEN [storeJet EXCEPT !.pt = j.pt, !.eta = j.eta, !.phi = j.phi,
                                    !.m = j.mass]
              ELSE [storeJet EXCEPT !.pt = j.raw.pt, !.eta = j.raw.eta,
                                    !.phi = j.raw.phi, !.m = j.raw.mass]
        s2 == [s1 EXCEPT !.area = j.jetArea, !.charge = j.jetCharge,
                         !.bTagCSV = j.bDiscriminator, !.secVertexMass = j.vtxMass,
                         !.pullAngle = PullAngle(j)]
        s3 == JetGenPart(c, s2, j)
    IN [s3 EXCEPT !.bits =
           SetBitsLoop(@, [i \in 1..c.nJetSel |-> JetSelectorBit(i - 1)], j.sel,
                       0, c.nJetSel)]

RECURSIVE JetLoop(_, _, _, _, _)
JetLoop(c, src, i, storeJet, out) ==
    IF i > Len(src) THEN out
    ELSE LET s0 == JetReset
         IN IF JetAdmitted(c, src[i])
            THEN LET s == FillJet(c, s0, src[i])
                 IN JetLoop(c, src, i + 1, s, Append(out, s))
            ELSE JetLoop(c, src, i + 1, s0, out)

\* Faulty variant of JetsStep: storeJets is not cleared.
JetsStepNoClear(c, prev, src) == JetLoop(c, src, 1, JetReset, prev)

\* storeJets.clear() and the loop.
JetsStep(c, prev, src) == JetLoop(c, src, 1, JetReset, <<>>)
(***************************************************************************)
(* analyze(): MET, generator information, pile-up                          *)
(***************************************************************************)
\* storeMET.Reset(); SetPt; SetPhi
METRecord(pt, phi) == [CandidateReset EXCEPT !.pt = pt, !.phi = phi]

ShiftedMET(met, shift, level) ==
    METRecord(ShiftedPt(met, shift, level), ShiftedPhi(met, shift, level))

\* The range-based for over the twelve variations.
RECURSIVE METVariationLoop(_, _, _)
METVariationLoop(met, i, out) ==
    IF i > Len(METVariations) THEN out
    ELSE METVariationLoop(met, i + 1,
                          Append(out, ShiftedMET(met, METVariations[i], "Type1")))

\* Faulty variant of METsStep: storeMETs is not cleared.
METsStepNoClear(c, prev, mets) ==
    LET met == Head(mets)
        m1 == Append(prev, ShiftedMET(met, "NoShift", "Type1"))
        m2 == Append(m1, ShiftedMET(met, "NoShift", "Raw"))
        m3 == IF ~c.runOnData THEN METVariationLoop(met, 1, m2) ELSE m2
    IN IF ~c.runOnData
       THEN Append(m3, METRecord(met.genMET.pt, met.genMET.phi))
       ELSE m3

\* From metHandle->front() to the generator-level MET.
METsStep(c, prev, mets) ==
    LET met == Head(mets)
        m1 == Append(<<>>, ShiftedMET(met, "NoShift", "Type1"))
        m2 == Append(m1, ShiftedMET(met, "NoShift", "Raw"))
        m3 == IF ~c.runOnData THEN METVariationLoop(met, 1, m2) ELSE m2
    IN IF ~c.runOnData
       THEN Append(m3, METRecord(met.genMET.pt, met.genMET.phi))
       ELSE m3

\* metHandle->front() refers to no object when the collection is empty, and
\* met.genMET() is null when the MET has no generator-level MET embedded.
METInvalidAccess(c, mets) ==
    \/ Len(mets) = 0
    \/ ~c.runOnData /\ ~Head(mets).genMET.present

\* The MET objects the reads of the MET part may see.
METReads(c, mets) ==
    LET fronts == IF Len(mets) = 0 THEN StrayMETs ELSE {Head(mets)}
    IN UNION {IF c.runOnData \/ m.genMET.present
              THEN {m}
              ELSE {[m EXCEPT !.genMET = g] : g \in StrayGenMETs} : m \in fronts}

\* storeMETs after the MET part, for every object the reads may see.
METsResults(c, prev, mets) == {METsStep(c, prev, <<m>>) : m \in METReads(c, mets)}

RECURSIVE AddWeights(_, _, _)
AddWeights(weights, src, i) ==
    IF i > Len(src) THEN weights ELSE AddWeights(Append(weights, src[i]), src, i + 1)

\* Faulty variant of GeneratorStep: generatorInfo is not reset before it is filled.
GeneratorStepNoReset(c, prev, generator) ==
    IF ~c.runOnData
    THEN LET g1 == [prev EXCEPT !.processId = generator.signalProcessID]
             g2 == [g1 EXCEPT !.weights = AddWeights(@, generator.weights, 1)]
         IN IF generator.pdf.present
            THEN [g2 EXCEPT !.pdfX = generator.pdf.x, !.pdfId = generator.pdf.id,
                            !.pdfQScale = generator.pdf.scalePDF]
            ELSE g2
    ELSE prev

\* The block if (not runOnData) that fills generatorInfo.
GeneratorStep(c, prev, generator) ==
    IF ~c.runOnData
    THEN LET g0 == GeneratorInfoReset
             g1 == [g0 EXCEPT !.processId = generator.signalProcessID]
             g2 == [g1 EXCEPT !.weights = AddWeights(@, generator.weights, 1)]
         IN IF generator.pdf.present
            THEN [g2 EXCEPT !.pdfX = generator.pdf.x, !.pdfId = generator.pdf.id,
                            !.pdfQScale = generator.pdf.scalePDF]
            ELSE g2
    ELSE prev

\* The loop that looks for bunch crossing 0 and stops at the first one.
RECURSIVE InTimePULoop(_, _, _)
InTimePULoop(p, puSummary, i) ==
    IF i > Len(puSummary) THEN p
    ELSE IF puSummary[i].bunchCrossing = 0
         THEN [p EXCEPT !.inTimePU = puSummary[i].numInteractions]
         ELSE InTimePULoop(p, puSummary, i + 1)

\* The block if (not runOnData) of the pile-up part, `front` being what
\* puSummary->front() refers to.
PileUpSimulation(p, front, puSummary) ==
    InTimePULoop([p EXCEPT !.trueNumPU = front.trueNumInteractions], puSummary, 1)

PileUpStep(c, prev, ev) ==
    LET p0 == PileUpInfoReset
        p1 == [p0 EXCEPT !.numPV = ev.nVertices, !.rho = ev.rho]
    IN IF ~c.runOnData
       THEN PileUpSimulation(p1, Head(ev.puSummary), ev.puSummary)
       ELSE p1

\* puSummary->front() refers to no object when the summary is empty.
PUInvalidAccess(c, ev) == ~c.runOnData /\ Len(ev.puSummary) = 0

\* puInfo after the pile-up part, for every object an invalid front() may read.
PileUpResults(c, prev, ev) ==
    IF PUInvalidAccess(c, ev)
    THEN {PileUpSimulation(
              [PileUpInfoReset EXCEPT !.numPV = ev.nVertices, !.rho = ev.rho],
              e, ev.puSummary) : e \in StrayPUEntries}
    ELSE {PileUpStep(c, prev, ev)}

\* eventId.Reset() and the three setters.
EventIdStep(prev, ev) ==
    [EventIDReset EXCEPT !.run = ev.id.run, !.event = ev.id.event, !.lumi = ev.id.lumi]

\* Faulty variant of NoVertices: the vertex check never raises.
NoVerticesNeverRaises(ev) == FALSE

\* The vertex check that raises edm::errors::LogicError.
NoVertices(ev) == ev.nVertices = 0

(***************************************************************************)
(* beginJob() and analyze()                                                *)
(***************************************************************************)
BranchesOf(c) ==
    {"eventId", "electrons", "muons", "jets", "METs", "puInfo"}
        \cup (IF ~c.runOnData THEN {"genInfo"} ELSE {})

\* What outTree->Fill() reads: each registered branch's buffer.
TreeEntry(br, id, ele, mu, jets, mets, gen, pu) ==
    LET all == [eventId |-> id, electrons |-> ele, muons |-> mu, jets |-> jets,
                METs |-> mets, genInfo |-> gen, puInfo |-> pu]
    IN [b \in br |-> all[b]]

NoEntry == <<>>

NoEvent == <<>>

\* The selector loop of the first electron, muon or admitted jet throws.
ElectronsRaise(c, src) ==
    Len(src) > 0 /\ (\E i \in 0..(c.nEleSel - 1) : IllegalBitIndex(EleSelectorBit(i)))

MuonsRaise(c, src) ==
    Len(src) > 0 /\ (\E i \in 0..(c.nMuSel - 1) : IllegalBitIndex(MuSelectorBit(i)))

JetsRaise(c, src) ==
    /\ \E k \in 1..Len(src) : JetAdmitted(c, src[k])
    /\ (\E i \in 0..(c.nJetSel - 1) : IllegalBitIndex(JetSelectorBit(i)))

\* The buffers after analyze() ran to its end on `ev`, from the buffers `b`
\* (in the order of `buffers`).
AnalyzeBuffers(c, b, ev) ==
    <<EventIdStep(b[1], ev),
      ElectronsStep(c, b[2], ev.electrons),
      MuonsStep(c, b[3], ev.muons),
      JetsStep(c, b[4], ev.jets),
      METsStep(c, b[5], ev.mets),
      GeneratorStep(c, b[6], ev.generator),
      PileUpStep(c, b[7], ev)>>

Outcome(s, b) == [status |-> s, b |-> b]

\* How analyze() may end on `ev` and the buffers it leaves: "raised" by the
\* vertex check, "bitIndexError" thrown by SetBit in the loop of the first
\* object (the collection is cleared, nothing is appended yet), "crashed" on an
\* invalid access, "emitted" after outTree->Fill().  An invalid access either
\* ends the process or reads a stray object and goes on.
AnalyzeOutcomes(c, b, ev) ==
    LET id == EventIdStep(b[1], ev)
    IN IF NoVertices(ev)
       THEN {Outcome("raised", <<id, b[2], b[3], b[4], b[5], b[6], b[7]>>)}
       ELSE IF ElectronsRaise(c, ev.electrons)
       THEN {Outcome("bitIndexError", <<id, <<>>, b[3], b[4], b[5], b[6], b[7]>>)}
       ELSE IF MuonsRaise(c, ev.muons)
       THEN {Outcome("bitIndexError",
                     <<id, ElectronsStep(c, b[2], ev.electrons), <<>>, b[4], b[5],
                       b[6], b[7]>>)}
       ELSE IF JetsRaise(c, ev.jets)
       THEN {Outcome("bitIndexError",
                     <<id, ElectronsStep(c, b[2], ev.electrons),
                       MuonsStep(c, b[3], ev.muons), <<>>, b[5], b[6], b[7]>>)}
       ELSE IF ~METInvalidAccess(c, ev.mets) /\ ~PUInvalidAccess(c, ev)
       THEN {Outcome("emitted", AnalyzeBuffers(c, b, ev))}
       ELSE {Outcome("crashed",
                     <<id, ElectronsStep(c, b[2], ev.electrons),
                       MuonsStep(c, b[3], ev.muons), JetsStep(c, b[4], ev.jets),
                       b[5], b[6], b[7]>>)}
            \cup {Outcome("emitted",
                          <<id, ElectronsStep(c, b[2], ev.electrons),
                            MuonsStep(c, b[3], ev.muons), JetsStep(c, b[4], ev.jets),
                            m, GeneratorStep(c, b[6], ev.generator), p>>) :
                      m \in METsResults(c, b[5], ev.mets),
                      p \in PileUpResults(c, b[7], ev)}

\* The events of every configuration.
EventsOf == [c \in Configs |-> Events(c)]

WideEventsOf == [c \in WideConfigs |-> Events(c)]

AbsentEventsOf == [c \in Configs |-> AbsentEvents(c)]

PullEventsOf == [c \in Configs |-> PullEvents(c)]

InitBuffers ==
    <<EventIDReset, <<>>, <<>>, <<>>, <<>>, GeneratorInfoReset, PileUpInfoReset>>

\* The state the constructor leaves, for a configuration of C.
Constructed(C) ==
    /\ cfg \in C
    /\ phase = "constructed"
    /\ branches = {}
    /\ eventId = InitBuffers[1]
    /\ storeElectrons = InitBuffers[2]
    /\ storeMuons = InitBuffers[3]
    /\ storeJets = InitBuffers[4]
    /\ storeMETs = InitBuffers[5]
    /\ generatorInfo = InitBuffers[6]
    /\ puInfo = InitBuffers[7]
    /\ nFilled = 0
    /\ outEntry = NoEntry
    /\ status = "none"
    /\ lastEvent = NoEvent
    /\ genInfoAtEntry = GeneratorInfoReset
    /\ nEvents = 0
    /\ nWithVertex = 0

Init == Constructed(Configs)

BeginJob ==
    /\ phase = "constructed"
    /\ phase' = "running"
    /\ branches' = BranchesOf(cfg)
    /\ UNCHANGED <<cfg, buffers, nFilled, outEntry, status, lastEvent,
                   genInfoAtEntry, nEvents, nWithVertex>>

Analyze(ev) ==
    /\ phase = "running"
    /\ nEvents < MaxEvents
    /\ nEvents' = nEvents + 1
    /\ nWithVertex' = IF ev.nVertices >= 1 THEN nWithVertex + 1 ELSE nWithVertex
    /\ lastEvent' = ev
    /\ genInfoAtEntry' = generatorInfo
    /\ \E o \in AnalyzeOutcomes(cfg, buffers, ev) :
          /\ eventId' = o.b[1]
          /\ storeElectrons' = o.b[2]
          /\ storeMuons' = o.b[3]
          /\ storeJets' = o.b[4]
          /\ storeMETs' = o.b[5]
          /\ generatorInfo' = o.b[6]
          /\ puInfo' = o.b[7]
          /\ status' = o.status
          /\ phase' = IF o.status = "crashed" THEN "aborted" ELSE phase
          /\ IF o.status = "emitted"
             THEN /\ nFilled' = nFilled + 1
                  /\ outEntry' = TreeEntry(branches, o.b[1], o.b[2], o.b[3], o.b[4],
                                           o.b[5], o.b[6], o.b[7])
             ELSE UNCHANGED <<nFilled, outEntry>>
    /\ UNCHANGED <<cfg, branches>>

Next ==
    \/ BeginJob
    \/ \E ev \in EventsOf[cfg] : Analyze(ev)

Spec == Init /\ [][Next]_vars

\* The program constructed with selector lists at the width of the bit field.
InitWide == Constructed(WideConfigs)

NextWide ==
    \/ BeginJob
    \/ \E ev \in WideEventsOf[cfg] : Analyze(ev)

SpecWide == InitWide /\ [][NextWide]_vars

\* The program given events that lack upstream inputs.
NextAbsent ==
    \/ BeginJob
    \/ \E ev \in AbsentEventsOf[cfg] : Analyze(ev)

SpecAbsent == Init /\ [][NextAbsent]_vars

\* The program given jets at every azimuth, without user-defined jet selectors.
InitPull == Constructed({c \in Configs : c.nJetSel = 0})

NextPull ==
    \/ BeginJob
    \/ \E ev \in PullEventsOf[cfg] : Analyze(ev)

SpecPull == InitPull /\ [][NextPull]_vars
(***************************************************************************)
(* Properties                                                              *)
(***************************************************************************)
Emitted == status = "emitted"

\* The input jets that pass the pt test, in input order.
PassingJets ==
    LET Pass(j) == j.pt > cfg.jetMinPt \/ j.raw.pt > cfg.jetMinRawPt
    IN SelectSeq(lastEvent.jets, Pass)

\* What identifies a jet on both sides: area, charge, b-tag and vertex mass.
InputJetKeys(js) ==
    [k \in 1..Len(js) |->
        <<js[k].jetArea, js[k].jetCharge, js[k].bDiscriminator, js[k].vtxMass>>]

StoredJetKeys(js) ==
    [k \in 1..Len(js) |->
        <<js[k].area, js[k].charge, js[k].bTagCSV, js[k].secVertexMass>>]

\* C1: the number of entries of the tree equals the number of events with at
\* least one vertex after every analyze(); a call emits if and only if its event
\* has a vertex, an emitted entry holds one event identity and one pile-up
\* record, and a call on an event without vertices raises and writes nothing.
C1_EmitIffVertex ==
    /\ nFilled = nWithVertex
    /\ status # "none" => (Emitted <=> lastEvent.nVertices >= 1)
    /\ status = "raised" => lastEvent.nVertices = 0
    /\ Emitted => {"eventId", "puInfo"} \subseteq DOMAIN outEntry
    /\ nFilled = 0 => outEntry = NoEntry

C1_Witness ==
    /\ nEvents = 2
    /\ nFilled = 1
    /\ status = "raised"

\* C2: the stored jets are exactly the input jets whose corrected pt is above
\* jetMinPt or whose raw pt is above jetMinRawPt, whatever saveCorrectedJetMomenta
\* and runOnData are.
C2_JetAdmission ==
    Emitted => StoredJetKeys(outEntry.jets) = InputJetKeys(PassingJets)

C2_Witness ==
    /\ Emitted
    /\ Len(lastEvent.jets) = 2
    /\ Len(outEntry.jets) = 1
    /\ \E k \in 1..2 : /\ lastEvent.jets[k].pt <= cfg.jetMinPt
                       /\ lastEvent.jets[k].raw.pt > cfg.jetMinRawPt
    /\ \E k \in 1..2 : /\ lastEvent.jets[k].pt = cfg.jetMinPt
                       /\ lastEvent.jets[k].raw.pt = cfg.jetMinRawPt

\* C3: on real data the genInfo branch is not registered and generatorInfo is
\* never written, and an emitted entry has no generator-matched jet (bit 0), no
\* jet flavour, no true or in-time pile-up and only the nominal and raw MET.
C3_DataHasNoGeneratorValues ==
    cfg.runOnData =>
        /\ "genInfo" \notin branches
        /\ generatorInfo = GeneratorInfoReset
        /\ Emitted =>
            /\ "genInfo" \notin DOMAIN outEntry
            /\ \A k \in DOMAIN outEntry.jets :
                  /\ ~TestBit(outEntry.jets[k].bits, 0)
                  /\ outEntry.jets[k].flavour = JetReset.flavour
            /\ outEntry.puInfo.trueNumPU = PileUpInfoReset.trueNumPU
            /\ outEntry.puInfo.inTimePU = PileUpInfoReset.inTimePU
            /\ Len(outEntry.METs) = 2

C3_Witness ==
    /\ cfg.runOnData
    /\ Emitted
    /\ Len(outEntry.jets) = 2
    /\ \A k \in 1..2 : GenMatched(PassingJets[k]) /\ PassingJets[k].hadronFlavour # 0
    /\ lastEvent.generator.pdf.present
    /\ Head(lastEvent.puSummary).bunchCrossing = 0

\* C4 as stated: the decision of jet selector i is at bit (reserved + i), with
\* reserved = 1 on simulation and 0 on real data.
C4_Original ==
    Emitted =>
        \A k \in DOMAIN outEntry.jets : \A i \in 0..(cfg.nJetSel - 1) :
            TestBit(outEntry.jets[k].bits, (IF cfg.runOnData THEN 0 ELSE 1) + i)
                = PassingJets[k].sel[i + 1]

\* C4, amended: the decision of jet selector i is at bit 1 + i on simulation and
\* on real data alike; bit 0 holds the generator match on simulation and is
\* false on real data, and no other bit is set.
C4_Amended ==
    Emitted =>
        \A k \in DOMAIN outEntry.jets : \A b \in 0..(FieldWidth - 1) :
            TestBit(outEntry.jets[k].bits, b)
                = IF b = 0 THEN ~cfg.runOnData /\ GenMatched(PassingJets[k])
                  ELSE b <= cfg.nJetSel /\ PassingJets[k].sel[b]

C4_Witness ==
    /\ cfg.runOnData
    /\ cfg.nJetSel = 2
    /\ Emitted
    /\ Len(outEntry.jets) >= 1
    /\ PassingJets[1].sel = <<TRUE, FALSE>>
    /\ outEntry.jets[1].bits = 2
\* C5: in every stored electron and muon bit 0 is the built-in decision
\* (conversion veto, tight muon) of the input object at the same position, bit
\* 1 + i is what selector i returned for that object, and no other bit is set.
C5_LeptonBits ==
    Emitted =>
        /\ Len(outEntry.electrons) = Len(lastEvent.electrons)
        /\ Len(outEntry.muons) = Len(lastEvent.muons)
        /\ \A k \in DOMAIN outEntry.electrons : \A b \in 0..(FieldWidth - 1) :
              TestBit(outEntry.electrons[k].bits, b)
                  = IF b = 0 THEN lastEvent.electrons[k].passConversionVeto
                    ELSE b <= cfg.nEleSel /\ lastEvent.electrons[k].sel[b]
        /\ \A k \in DOMAIN outEntry.muons : \A b \in 0..(FieldWidth - 1) :
              TestBit(outEntry.muons[k].bits, b)
                  = IF b = 0 THEN lastEvent.muons[k].tight
                    ELSE b <= cfg.nMuSel /\ lastEvent.muons[k].sel[b]

C5_Witness ==
    /\ Emitted
    /\ cfg.nEleSel = 2
    /\ Len(lastEvent.electrons) = 2
    /\ lastEvent.electrons[1].passConversionVeto
    /\ lastEvent.electrons[1].sel = <<TRUE, TRUE>>
    /\ ~lastEvent.electrons[2].passConversionVeto
    /\ lastEvent.electrons[2].sel = <<TRUE, FALSE>>
    /\ outEntry.electrons[1].bits = 7
    /\ outEntry.electrons[2].bits = 2

\* C6: on simulation the emitted generator record has its PDF fields set, to the
\* event's PDF block, if and only if the event's generator product has one, and
\* neutral otherwise; its weights are the event's weights alone.
C6_GeneratorInfoPerEvent ==
    (~cfg.runOnData /\ Emitted) =>
        LET g == outEntry.genInfo
            in == lastEvent.generator
        IN /\ g.processId = in.signalProcessID
           /\ g.weights = in.weights
           /\ <<g.pdfX, g.pdfId, g.pdfQScale>>
                 = IF in.pdf.present
                   THEN <<in.pdf.x, in.pdf.id, in.pdf.scalePDF>>
                   ELSE <<GeneratorInfoReset.pdfX, GeneratorInfoReset.pdfId,
                          GeneratorInfoReset.pdfQScale>>
           /\ in.pdf.present <=> g.pdfX # GeneratorInfoReset.pdfX

\* An event without a PDF block emitted right after one with a PDF block and
\* two weights.
C6_Witness ==
    /\ ~cfg.runOnData
    /\ Emitted
    /\ nFilled = 2
    /\ genInfoAtEntry.pdfX # GeneratorInfoReset.pdfX
    /\ Len(genInfoAtEntry.weights) = 2
    /\ ~lastEvent.generator.pdf.present
    /\ Len(lastEvent.generator.weights) = 1
    /\ outEntry.genInfo.pdfQScale = 0

C8_HistoryIndependent ==
    Emitted =>
        \E f \in {AnalyzeBuffers(cfg, InitBuffers, lastEvent)} :
            outEntry = TreeEntry(BranchesOf(cfg), f[1], f[2], f[3], f[4], f[5],
                                 f[6], f[7])

\* An event emitted after an event that failed the vertex check.
C8_Witness ==
    /\ Emitted
    /\ nEvents = 2
    /\ nFilled = 1
    /\ Len(outEntry.jets) = 1
    /\ Len(outEntry.electrons) = 2

\* C9 as stated: the MET collection holds the nominal record, the raw record and,
\* on simulation only, one record per variation, and nothing else.
C9_Original ==
    Emitted =>
        Len(outEntry.METs) = IF cfg.runOnData THEN 2 ELSE 2 + Len(METVariations)

\* C9, amended: the MET collection holds the nominal record, the raw record and,
\* on simulation only, one record per variation in the order of the list and
\* then one generator-level MET record: 2 records on real data, 2 + N + 1 on
\* simulation; every record has eta and mass at the neutral value.
C9_Amended ==
    Emitted =>
        LET met == Head(lastEvent.mets)
            m == outEntry.METs
            Is(r, pt, phi) == r = [pt |-> pt, eta |-> CandidateReset.eta,
                                   phi |-> phi, m |-> CandidateReset.m]
        IN /\ Len(m) = IF cfg.runOnData THEN 2 ELSE 2 + Len(METVariations) + 1
           /\ Is(m[1], ShiftedPt(met, "NoShift", "Type1"),
                 ShiftedPhi(met, "NoShift", "Type1"))
           /\ Is(m[2], ShiftedPt(met, "NoShift", "Raw"), ShiftedPhi(met, "NoShift", "Raw"))
           /\ ~cfg.runOnData =>
                /\ \A i \in DOMAIN METVariations :
                      Is(m[2 + i], ShiftedPt(met, METVariations[i], "Type1"),
                         ShiftedPhi(met, METVariations[i], "Type1"))
                /\ Is(m[Len(m)], met.genMET.pt, met.genMET.phi)

C9_Witness ==
    /\ ~cfg.runOnData
    /\ Emitted
    /\ nFilled = 2
    /\ Len(outEntry.METs) = 15
    /\ outEntry.METs[15].pt = Head(lastEvent.mets).genMET.pt
    /\ outEntry.METs[1].pt # outEntry.METs[2].pt

\* C10: the stored electrons and muons are the input electrons and muons, one
\* record each in input order, and the stored jets are the input jets that pass
\* the pt test, in input order, whatever the selectors return.
C10_SelectorsDoNotFilter ==
    Emitted =>
        /\ [k \in DOMAIN outEntry.electrons |->
               <<outEntry.electrons[k].pt, outEntry.electrons[k].eta,
                 outEntry.electrons[k].phi, outEntry.electrons[k].charge,
                 outEntry.electrons[k].dB, outEntry.electrons[k].relIso>>]
             = [k \in DOMAIN lastEvent.electrons |->
                  <<lastEvent.electrons[k].pt, lastEvent.electrons[k].eta,
                    lastEvent.electrons[k].phi, lastEvent.electrons[k].charge,
                    lastEvent.electrons[k].dB, RelIso(lastEvent.electrons[k])>>]
        /\ [k \in DOMAIN outEntry.muons |->
               <<outEntry.muons[k].pt, outEntry.muons[k].eta, outEntry.muons[k].phi,
                 outEntry.muons[k].charge, outEntry.muons[k].dB,
                 outEntry.muons[k].relIso>>]
             = [k \in DOMAIN lastEvent.muons |->
                  <<lastEvent.muons[k].pt, lastEvent.muons[k].eta,
                    lastEvent.muons[k].phi, lastEvent.muons[k].charge,
                    lastEvent.muons[k].dB, RelIso(lastEvent.muons[k])>>]
        /\ StoredJetKeys(outEntry.jets) = InputJetKeys(PassingJets)
        /\ [k \in DOMAIN outEntry.jets |-> outEntry.jets[k].pullAngle]
             = [k \in DOMAIN PassingJets |-> PullAngle(PassingJets[k])]

\* Two electrons, the first passing every selector and the second only one.
C10_Witness ==
    /\ Emitted
    /\ cfg.nEleSel = 2
    /\ Len(lastEvent.electrons) = 2
    /\ lastEvent.electrons[1].sel = <<TRUE, TRUE>>
    /\ lastEvent.electrons[2].sel = <<TRUE, FALSE>>
    /\ lastEvent.electrons[1].pt # lastEvent.electrons[2].pt
    /\ Len(outEntry.electrons) = 2

\* Some selector index 1 + i of the configuration is beyond the bit field.
OverWide(c) ==
    \/ (\E i \in 0..(c.nEleSel - 1) : IllegalBitIndex(EleSelectorBit(i)))
    \/ (\E i \in 0..(c.nMuSel - 1) : IllegalBitIndex(MuSelectorBit(i)))
    \/ (\E i \in 0..(c.nJetSel - 1) : IllegalBitIndex(JetSelectorBit(i)))

\* C11: a configuration whose selector list puts an index 1 + i beyond the width
\* of the bit field is rejected by the constructor, before any event is
\* processed: analyze() never runs in an instance so configured.
C11_RejectedBeforeAnyEvent == OverWide(cfg) => nEvents = 0

\* C11: with such a configuration one event has been written to the tree and
\* SetBit throws only in a later analyze().
C11_Witness ==
    /\ OverWide(cfg)
    /\ nEvents = 2
    /\ nFilled = 1
    /\ status = "bitIndexError"

\* C12: an event with at least one vertex is always emitted, whatever upstream
\* input it lacks, and the fields of what it lacks hold their neutral values:
\* the PDF fields without a PDF block, the generator-match bit without a
\* generator-level jet, the generator-level MET record without a generator-level
\* MET, the true and in-time pile-up without a pile-up summary, the in-time
\* pile-up without an entry of bunch crossing 0.
C12_SilentSkipOnAbsence ==
    (nEvents > 0 /\ lastEvent.nVertices >= 1) =>
        /\ status = "emitted"
        /\ Len(outEntry.jets) = Len(PassingJets)
        /\ \A k \in DOMAIN outEntry.jets :
              ~PassingJets[k].genJet.present => ~TestBit(outEntry.jets[k].bits, 0)
        /\ Len(lastEvent.mets) = 0 =>
              \A k \in DOMAIN outEntry.METs : outEntry.METs[k] = CandidateReset
        /\ ~cfg.runOnData =>
              /\ ~lastEvent.generator.pdf.present =>
                    /\ outEntry.genInfo.pdfX = GeneratorInfoReset.pdfX
                    /\ outEntry.genInfo.pdfId = GeneratorInfoReset.pdfId
                    /\ outEntry.genInfo.pdfQScale = GeneratorInfoReset.pdfQScale
              /\ (Len(lastEvent.mets) > 0 /\ ~Head(lastEvent.mets).genMET.present) =>
                    outEntry.METs[Len(outEntry.METs)] = CandidateReset
              /\ Len(lastEvent.puSummary) = 0 =>
                    outEntry.puInfo.trueNumPU = PileUpInfoReset.trueNumPU
              /\ (\A i \in DOMAIN lastEvent.puSummary :
                        lastEvent.puSummary[i].bunchCrossing # 0) =>
                    outEntry.puInfo.inTimePU = PileUpInfoReset.inTimePU

\* C12: the process ended inside analyze() on an event with a vertex and an
\* empty MET collection.
C12_Witness ==
    /\ status = "crashed"
    /\ lastEvent.nVertices >= 1
    /\ Len(lastEvent.mets) = 0
    /\ nFilled = 0

Normalise(phi) == ((phi + HalfTurn - 1) % (2 * HalfTurn)) - HalfTurn + 1

\* The azimuth difference stored for constituent n of the k-th jet of the event.
StoredDPhi(k, n) == outEntry.jets[k].pullAngle[n][3]

\* What the wrap makes of the same jet and constituent rotated by delta.
RotatedDPhi(k, n, delta) ==
    WrapDPhi(Normalise(lastEvent.jets[k].daughters[n].phi + delta)
                - Normalise(lastEvent.jets[k].raw.phi + delta))

\* The jets of the last event all pass the pt test and have constituents.
PullCase ==
    /\ Emitted
    /\ Len(outEntry.jets) = Len(lastEvent.jets)
    /\ \E k \in DOMAIN lastEvent.jets : Len(lastEvent.jets[k].daughters) > 0

\* C14: for axis and constituent azimuths in [-pi, pi] the corrected azimuth
\* difference lies in (-pi, pi], is congruent to the raw difference modulo 2 pi,
\* and is the same for the jet and constituent rotated by any common angle.
C14_Original ==
    PullCase =>
        \A k \in DOMAIN lastEvent.jets : \A n \in DOMAIN lastEvent.jets[k].daughters :
            LET raw == lastEvent.jets[k].daughters[n].phi - lastEvent.jets[k].raw.phi
                d == StoredDPhi(k, n)
            IN /\ -HalfTurn < d /\ d <= HalfTurn
               /\ (d - raw) % (2 * HalfTurn) = 0
               /\ \A delta \in Azimuths : RotatedDPhi(k, n, delta) = d

\* C14, amended: the corrected difference lies in the closed interval [-pi, pi]
\* and is congruent to the raw difference modulo 2 pi; a common rotation leaves
\* it unchanged unless it is pi or -pi, and then it stays pi or -pi.
C14_Amended ==
    PullCase =>
        \A k \in DOMAIN lastEvent.jets : \A n \in DOMAIN lastEvent.jets[k].daughters :
            LET raw == lastEvent.jets[k].daughters[n].phi - lastEvent.jets[k].raw.phi
                d == StoredDPhi(k, n)
            IN /\ -HalfTurn <= d /\ d <= HalfTurn
               /\ (d - raw) % (2 * HalfTurn) = 0
               /\ \A delta \in Azimuths :
                     IF d \in {-HalfTurn, HalfTurn}
                     THEN RotatedDPhi(k, n, delta) \in {-HalfTurn, HalfTurn}
                     ELSE RotatedDPhi(k, n, delta) = d

\* C14: a raw difference below -pi was corrected by + 2 pi, for a jet axis just
\* below pi and a constituent just above -pi.
C14_Witness ==
    /\ PullCase
    /\ lastEvent.jets[1].raw.phi = HalfTurn - 1
    /\ lastEvent.jets[1].daughters[1].phi = -HalfTurn + 1
    /\ StoredDPhi(1, 1) = 2
====
